---- MODULE Spec2Model ----
(***************************************************************************)
(* Model of src/vim_navigation.rs: the OS event-interception callback      *)
(* (the hook) racing against the periodic movement thread (the mover),     *)
(* both working on the shared CursorState and the navigation_enabled flag. *)
(*                                                                         *)
(* Positions and speeds are f64 pixels in the source.  They are kept here  *)
(* as integers in units of 1/Scale pixel, which represents exactly every   *)
(* value the source computes for integer hold durations (the precision     *)
(* mode divides by 10.0, the start position is the screen size over 2.0).  *)
(* Time is an integer clock; Instant::now() reads it.                      *)
(***************************************************************************)
EXTENDS Integers, Sequences, FiniteSets, TLC

\* ------------------------------------------------------------------ bounds
Width   == 4    \* display width in pixels  (display_size().0)
Height  == 3    \* display height in pixels (display_size().1)
MaxTime == 1    \* the clock runs from 0 to MaxTime
MaxDown == 2    \* at most this many keys are physically down at once

\* --------------------------------------------------------------- constants
Scale == 10     \* position units per pixel (the precision divisor 10.0)

\* VimNavConfig::default(); max_move_step -1 stands for None
default_config ==
    [ initial_move_step       |-> 1 * Scale,
      max_move_step           |-> -1,
      acceleration_base       |-> 2,
      acceleration_multiplier |-> 50,
      precision_divisor       |-> 100 ]

\* string_to_key of each configured binding (with its unwrap_or default)
left_key          == "KeyH"
down_key          == "KeyJ"
up_key            == "KeyK"
right_key         == "KeyL"
click_key         == "Return"
toggle_mode_key   == "Escape"
right_click_key   == "KeyI"
select_toggle_key == "KeyV"
goto_top_key      == "KeyG"
goto_bottom_key   == "KeyG"
yank_key          == "KeyY"
paste_key         == "KeyP"

DirectionKeys == {left_key, down_key, up_key, right_key}
ShiftKeys     == {"ShiftLeft", "ShiftRight"}

\* the keys the user works within one run: moving with the precision key;
\* scrolling and jumping with shift; the one-shot actions, where KeyA stands
\* for every key no binding names.  Every keyboard has the toggle key.
Keyboards ==
    { DirectionKeys \cup {toggle_mode_key, "Space"},
      DirectionKeys \cup ShiftKeys
          \cup {goto_top_key, goto_bottom_key, toggle_mode_key},
      { click_key, right_click_key, select_toggle_key, yank_key, paste_key,
        "KeyA", toggle_mode_key } }

screen_width  == Width * Scale
screen_height == Height * Scale

\* ------------------------------------------------------------------- state
VARIABLES
    x, y,                \* CursorState.x, CursorState.y
    pressed_keys,        \* CursorState.pressed_keys   : key -> press instant
    current_speeds,      \* CursorState.current_speeds : key -> speed
    shift_pressed,       \* CursorState.shift_pressed
    space_pressed,       \* CursorState.space_pressed
    selection_active,    \* CursorState.selection_active
    navigation_enabled,  \* the Mode flag: TRUE = navigation, FALSE = typing
    cs_lock,             \* owner of the CursorState mutex
    nav_lock,            \* owner of the navigation_enabled mutex
    now,                 \* the clock
    config,              \* CursorState.config, the loaded VimNavConfig
    keyboard,            \* the keys the environment uses in this run
    recording,           \* whether this run keeps the history fwdDown
    down,                \* keys physically down
    fwdDown,             \* keys down of which a press has been forwarded
    hpc,                 \* hook: position in the callback
    hev,                 \* hook: the event being handled
    hnav,                \* hook: local nav_enabled (line 565)
    hq,                  \* hook: events the running action has still to send
    hret,                \* hook: the callback's decision
    hookInj,             \* events the current hook invocation has injected
    mpc,                 \* mover: position in the loop
    mxy,                 \* mover: the x, y read by move_cursor
    moverInj,            \* events the current mover tick has injected
    tickAfterTyping,     \* the current tick began with typing mode settled
    leftDown             \* synthetic left button: pressed and not yet released

csVars   == <<x, y, pressed_keys, current_speeds, shift_pressed, space_pressed,
              selection_active>>
envVars  == <<config, keyboard, recording>>
hookVars == <<hpc, hev, hnav, hq, hret, hookInj>>
moverVars == <<mpc, mxy, moverInj, tickAfterTyping>>
vars == <<x, y, pressed_keys, current_speeds, shift_pressed, space_pressed,
          selection_active, navigation_enabled, cs_lock, nav_lock, now,
          config, keyboard, recording, down, fwdDown, hpc, hev, hnav, hq,
          hret, hookInj, mpc, mxy, moverInj, tickAfterTyping, leftDown>>

\* ----------------------------------------------------------------- helpers
Min(a, b) == IF a <= b THEN a ELSE b
Max(a, b) == IF a >= b THEN a ELSE b

RECURSIVE powf(_, _)
powf(b, e) == IF e = 0 THEN 1 ELSE b * powf(b, e - 1)

\* HashMap::insert / HashMap::remove
MapInsert(m, k, v) == [j \in DOMAIN m \cup {k} |-> IF j = k THEN v ELSE m[j]]
MapRemove(m, k)    == [j \in DOMAIN m \ {k} |-> m[j]]
EmptyMap           == [j \in {} |-> 0]

\* the CursorState fields the movement methods read and write, as a record
CursorRec ==
    [ x |-> x, y |-> y, pressed_keys |-> pressed_keys,
      current_speeds |-> current_speeds, space_pressed |-> space_pressed ]

\* ------------------------------------------------- CursorState, lines 233-300
\* a start_key_press that records no press instant
start_key_press_nothing(pk, key) == pk

start_key_press(pk, key) == MapInsert(pk, key, now)
start_key_speed(sp, key) == MapInsert(sp, key, config.initial_move_step)

\* a stop_key_press that removes nothing
stop_key_press_keep(m, key) == m

stop_key_press(m, key) == MapRemove(m, key)

\* an acceleration formula that leaves the multiplier out
new_speed_no_multiplier(hold_duration, space, c) ==
    LET exponential_factor == powf(c.acceleration_base, hold_duration)
        base_speed == c.initial_move_step * exponential_factor
        scaled == IF space THEN base_speed \div 10 ELSE base_speed
    IN  IF c.max_move_step >= 0 THEN Min(scaled, c.max_move_step * Scale)
        ELSE scaled

\* an update_speed that never looks at max_move_step
new_speed_uncapped(hold_duration, space, c) ==
    LET exponential_factor == powf(c.acceleration_base, hold_duration)
        base_speed == c.initial_move_step
                      + c.acceleration_multiplier * exponential_factor * Scale
    IN  IF space THEN base_speed \div 10 ELSE base_speed

\* the speed update_speed computes for a key held for hold_duration, in
\* position units: initial + multiplier * base^hold, /10 in precision mode,
\* capped by max_move_step when one is configured
new_speed(hold_duration, space, c) ==
    LET exponential_factor == powf(c.acceleration_base, hold_duration)
        base_speed == c.initial_move_step
                      + c.acceleration_multiplier * exponential_factor * Scale
        scaled == IF space THEN base_speed \div 10 ELSE base_speed
    IN  IF c.max_move_step >= 0 THEN Min(scaled, c.max_move_step * Scale)
        ELSE scaled

\* update_speed: <<speed, current_speeds afterwards>>
update_speed(s, key) ==
    IF key \in DOMAIN s.pressed_keys
    THEN LET final_speed ==
                 new_speed(now - s.pressed_keys[key], s.space_pressed, config)
         IN  <<final_speed, MapInsert(s.current_speeds, key, final_speed)>>
    ELSE <<config.initial_move_step, s.current_speeds>>

\* a move_left / move_up that forgets the .max(0.0)
clamp_low_missing(v) == v

\* .max(0.0) of lines 280, 290 and .min(size - 1.0) of lines 285, 295
clamp_low(v) == Max(v, 0)

clamp_high(v, hi) == Min(v, hi - 1 * Scale)

move_left(s, key) ==
    LET u == update_speed(s, key)
    IN  [s EXCEPT !.x = clamp_low(s.x - u[1]), !.current_speeds = u[2]]

move_right(s, key) ==
    LET u == update_speed(s, key)
    IN  [s EXCEPT !.x = clamp_high(s.x + u[1], screen_width),
                  !.current_speeds = u[2]]

move_up(s, key) ==
    LET u == update_speed(s, key)
    IN  [s EXCEPT !.y = clamp_low(s.y - u[1]), !.current_speeds = u[2]]

move_down(s, key) ==
    LET u == update_speed(s, key)
    IN  [s EXCEPT !.y = clamp_high(s.y + u[1], screen_height),
                  !.current_speeds = u[2]]

is_key_pressed(s, key) == key \in DOMAIN s.pressed_keys

\* ------------------------------------------------------- synthetic events
MouseMove(px, py)  == [kind |-> "MouseMove", x |-> px, y |-> py]
ButtonPress(b)     == [kind |-> "ButtonPress", button |-> b]
ButtonRelease(b)   == [kind |-> "ButtonRelease", button |-> b]
Wheel(dx, dy)      == [kind |-> "Wheel", delta_x |-> dx, delta_y |-> dy]
KeyPress(k)        == [kind |-> "KeyPress", key |-> k]
KeyRelease(k)      == [kind |-> "KeyRelease", key |-> k]

\* a call of send_event (simulate, then the settle sleep) or of simulate alone
Sent(e)      == [ev |-> e, settle |-> TRUE]
Simulated(e) == [ev |-> e, settle |-> FALSE]

\* the state of the synthetic left button after event e is delivered
LeftAfter(e, was) ==
    IF e.kind = "ButtonPress" /\ e.button = "Left" THEN TRUE
    ELSE IF e.kind = "ButtonRelease" /\ e.button = "Left" THEN FALSE
    ELSE was

\* -------------------------------------------------------------------- Init
NoEvent == [type |-> "None", key |-> "None", repeat |-> FALSE]

\* CursorState::new (lines 217-231), navigation_enabled = true (line 495),
\* the mover at the top of its loop, the hook waiting for an event, no key down
Start(kb, c, rec) ==
    /\ x = screen_width \div 2
    /\ y = screen_height \div 2
    /\ pressed_keys = EmptyMap
    /\ current_speeds = EmptyMap
    /\ shift_pressed = FALSE
    /\ space_pressed = FALSE
    /\ selection_active = FALSE
    /\ navigation_enabled = TRUE
    /\ cs_lock = "none"
    /\ nav_lock = "none"
    /\ now = 0
    /\ config = c
    /\ keyboard = kb
    /\ recording = rec
    /\ down = {}
    /\ fwdDown = {}
    /\ hpc = "idle"
    /\ hev = NoEvent
    /\ hnav = TRUE
    /\ hq = <<>>
    /\ hret = "none"
    /\ hookInj = <<>>
    /\ mpc = "loop"
    /\ mxy = <<0, 0>>
    /\ moverInj = <<>>
    /\ tickAfterTyping = FALSE
    /\ leftDown = FALSE

Init == \E kb \in Keyboards : Start(kb, default_config, FALSE)

\* ------------------------------------------------------------- environment
\* time passes
Advance ==
    /\ now < MaxTime
    /\ now' = now + 1
    /\ UNCHANGED <<csVars, navigation_enabled, cs_lock, nav_lock, envVars, fwdDown,
                   down, hookVars, moverVars, leftDown>>

\* the raw events the keyboard can deliver next: a press of a key that is up,
\* the auto-repeat press of a key that is down, the release of a key that is
\* down, or an event that is no key event
KeyboardEvents ==
    {[type |-> "KeyPress", key |-> k, repeat |-> FALSE] :
        k \in {j \in keyboard \ down : Cardinality(down) < MaxDown}}
    \cup {[type |-> "KeyPress", key |-> k, repeat |-> TRUE] : k \in down}
    \cup {[type |-> "KeyRelease", key |-> k, repeat |-> FALSE] : k \in down}
    \cup {[type |-> "Other", key |-> "None", repeat |-> FALSE]}

DownAfter(ev) ==
    IF ev.type = "KeyPress" THEN down \cup {ev.key}
    ELSE IF ev.type = "KeyRelease" THEN down \ {ev.key}
    ELSE down

\* ------------------------------------------------ the mover, lines 510-557
\* thread::sleep(repeat_delay_ms) of the previous tick is over (line 555) and
\* while *running.lock().unwrap() holds: a tick begins
MoverLoop ==
    /\ mpc = "loop"
    /\ mpc' = "check_nav"
    /\ tickAfterTyping' = (~navigation_enabled /\ nav_lock = "none")
    /\ UNCHANGED <<csVars, navigation_enabled, cs_lock, nav_lock, now,
                   envVars, fwdDown, down, hookVars, mxy, moverInj, leftDown>>

\* if *navigation_enabled.lock().unwrap(): the guard is a temporary, dropped
\* at the end of the condition.  In typing mode the tick is over.
MoverCheckNav ==
    /\ mpc = "check_nav"
    /\ nav_lock = "none"
    /\ mpc' = IF navigation_enabled THEN "lock_state" ELSE "loop"
    /\ tickAfterTyping' = (IF navigation_enabled THEN tickAfterTyping ELSE FALSE)
    /\ UNCHANGED <<csVars, navigation_enabled, cs_lock, nav_lock, now,
                   envVars, fwdDown, down, hookVars, mxy, moverInj, leftDown>>

\* let mut state = cursor_state.lock().unwrap(), line 514
MoverLockState ==
    /\ mpc = "lock_state"
    /\ cs_lock = "none"
    /\ cs_lock' = "mover"
    /\ mpc' = "update"
    /\ UNCHANGED <<csVars, navigation_enabled, nav_lock, now, envVars, fwdDown, down,
                   hookVars, mxy, moverInj, tickAfterTyping, leftDown>>

\* the four is_key_pressed / move_* pairs of a tick, in source order
tick_moves(s) ==
    LET s1 == IF is_key_pressed(s, left_key) THEN move_left(s, left_key) ELSE s
        s2 == IF is_key_pressed(s1, down_key) THEN move_down(s1, down_key) ELSE s1
        s3 == IF is_key_pressed(s2, up_key) THEN move_up(s2, up_key) ELSE s2
        s4 == IF is_key_pressed(s3, right_key) THEN move_right(s3, right_key) ELSE s3
    IN  s4

\* the `moved` flag after the four checks
tick_moved(s) == DirectionKeys \cap DOMAIN s.pressed_keys # {}

\* lines 530-553 under the lock; the guard is dropped at line 548 when
\* something moved and at the end of the block otherwise (the tick is over)
MoverUpdate ==
    /\ mpc = "update"
    /\ cs_lock = "mover"
    /\ LET s == tick_moves(CursorRec)
       IN  /\ x' = s.x
           /\ y' = s.y
           /\ current_speeds' = s.current_speeds
    /\ cs_lock' = "none"
    /\ mpc' = IF tick_moved(CursorRec) THEN "move_cursor" ELSE "loop"
    /\ tickAfterTyping' = (IF tick_moved(CursorRec) THEN tickAfterTyping ELSE FALSE)
    /\ UNCHANGED <<pressed_keys, shift_pressed, space_pressed, selection_active,
                   navigation_enabled, nav_lock, now, envVars, fwdDown, down, hookVars,
                   mxy, moverInj, leftDown>>

\* move_cursor, lines 319-323: lock, copy x and y, drop
MoverMoveCursor ==
    /\ mpc = "move_cursor"
    /\ cs_lock = "none"
    /\ mxy' = <<x, y>>
    /\ mpc' = "send"
    /\ UNCHANGED <<csVars, navigation_enabled, cs_lock, nav_lock, now,
                   envVars, fwdDown, down, hookVars, moverInj, tickAfterTyping,
                   leftDown>>

\* send_event(MouseMove { x, y }), lines 303-316: simulate succeeds, or fails
\* and the tick is over (lines 549-551)
MoverSend ==
    /\ mpc = "send"
    /\ \E ok \in BOOLEAN :
          IF ok
          THEN /\ moverInj' = Append(moverInj, MouseMove(mxy[1], mxy[2]))
               /\ mpc' = "settle"
               /\ tickAfterTyping' = tickAfterTyping
          ELSE /\ moverInj' = moverInj
               /\ mpc' = "loop"
               /\ tickAfterTyping' = FALSE
    /\ mxy' = <<0, 0>>
    /\ UNCHANGED <<csVars, navigation_enabled, cs_lock, nav_lock, now,
                   envVars, fwdDown, down, hookVars, leftDown>>

\* a tick that sends one pointer move for each held direction key
MoverSettle_per_axis ==
    /\ mpc = "settle"
    /\ LET held == Cardinality(DirectionKeys \cap DOMAIN pressed_keys)
       IN  IF Len(moverInj) < held
           THEN /\ mpc' = "move_cursor"
                /\ UNCHANGED <<moverInj, tickAfterTyping>>
           ELSE /\ mpc' = "loop"
                /\ moverInj' = <<>>
                /\ tickAfterTyping' = FALSE
    /\ UNCHANGED <<csVars, navigation_enabled, cs_lock, nav_lock, now,
                   envVars, fwdDown, down, hookVars, mxy, leftDown>>

\* thread::sleep(delay) of send_event, line 308; the tick is over
MoverSettle ==
    /\ mpc = "settle"
    /\ mpc' = "loop"
    /\ moverInj' = <<>>
    /\ tickAfterTyping' = FALSE
    /\ UNCHANGED <<csVars, navigation_enabled, cs_lock, nav_lock, now,
                   envVars, fwdDown, down, hookVars, mxy, leftDown>>

\* ---------------------------------------- the Action Dispatcher, lines 327-451
\* each one-shot action as the calls it makes, in order; a failed call ends it
click_mouse ==
    <<Sent(ButtonPress("Left")), Sent(ButtonRelease("Left"))>>

right_click_mouse ==
    <<Sent(ButtonPress("Right")), Sent(ButtonRelease("Right"))>>

scroll_amount == 3

\* a scroll whose horizontal directions are swapped
scroll_event_swapped(direction) ==
    CASE direction = "up"    -> Wheel(0, 120)
      [] direction = "down"  -> Wheel(0, -120)
      [] direction = "left"  -> Wheel(120, 0)
      [] direction = "right" -> Wheel(-120, 0)

scroll_event(direction) ==
    CASE direction = "up"    -> Wheel(0, 120)
      [] direction = "down"  -> Wheel(0, -120)
      [] direction = "left"  -> Wheel(-120, 0)
      [] direction = "right" -> Wheel(120, 0)

scroll(direction) == [i \in 1..scroll_amount |-> Sent(scroll_event(direction))]

yank_copy ==
    <<Simulated(KeyPress("MetaLeft")), Simulated(KeyPress("KeyC")),
      Simulated(KeyRelease("KeyC")), Simulated(KeyRelease("MetaLeft"))>>

paste ==
    <<Simulated(KeyPress("MetaLeft")), Simulated(KeyPress("KeyV")),
      Simulated(KeyRelease("KeyV")), Simulated(KeyRelease("MetaLeft"))>>

\* toggle_selection: the button event for the new value of selection_active
selection_event(active) ==
    IF active THEN ButtonPress("Left") ELSE ButtonRelease("Left")

\* a goto-bottom that stores the screen height
goto_edge_y_height(go_to_top) == IF go_to_top THEN 0 ELSE screen_height

\* goto_screen_edge: the y it stores
goto_edge_y(go_to_top) == IF go_to_top THEN 0 ELSE screen_height - 1 * Scale

\* the scroll direction of a direction key, lines 618-648
scroll_dir(key) ==
    CASE key = left_key  -> "left"
      [] key = down_key  -> "down"
      [] key = up_key    -> "up"
      [] key = right_key -> "right"

\* the keys whose press runs a queue of injections and touches no state
OneShotKeys == {click_key, right_click_key, yank_key, paste_key}

one_shot(key) ==
    CASE key = click_key       -> click_mouse
      [] key = right_click_key -> right_click_mouse
      [] key = yank_key        -> yank_copy
      [] key = paste_key       -> paste

\* ------------------------------------------- the hook, lines 564-793
\* the OS calls the callback with raw event ev; line 565 copies
\* navigation_enabled
Callback(ev) ==
    /\ hpc = "idle"
    /\ nav_lock = "none"
    /\ ev \in KeyboardEvents
    /\ hev' = ev
    /\ hnav' = navigation_enabled
    /\ down' = DownAfter(ev)

\* the decision of a press of Shift or Space: only Space in navigation mode
\* is blocked (line 745)
modifier_press_decision(key, nav) ==
    IF nav /\ key = "Space" THEN "suppress" ELSE "forward"

\* lines 570-575, then the fall through to line 745 or 751
HookPressModifier ==
    \E ev \in KeyboardEvents :
        /\ Callback(ev)
        /\ ev.type = "KeyPress"
        /\ ev.key \in ShiftKeys \cup {"Space"}
        /\ cs_lock = "none"
        /\ shift_pressed' = (IF ev.key \in ShiftKeys THEN TRUE ELSE shift_pressed)
        /\ space_pressed' = (IF ev.key = "Space" THEN TRUE ELSE space_pressed)
        /\ hpc' = "ret"
        /\ hret' = modifier_press_decision(ev.key, navigation_enabled)
        /\ UNCHANGED <<x, y, pressed_keys, current_speeds, selection_active,
                       navigation_enabled, cs_lock, nav_lock, now, envVars, fwdDown,
                       hq, hookInj, moverVars, leftDown>>

\* line 584: *nav_enabled_guard = !*nav_enabled_guard
toggle_mode(nav) == ~nav

\* the events that flip the mode, lines 578-582: every KeyPress of the
\* toggle key
is_toggle_press(ev) == ev.type = "KeyPress" /\ ev.key = toggle_mode_key

\* lines 583-593: lock navigation_enabled and flip it.  Entering navigation
\* mode returns at once; entering typing mode keeps the guard while the
\* tracker is cleared.
HookToggle ==
    \E ev \in KeyboardEvents :
        /\ Callback(ev)
        /\ is_toggle_press(ev)
        /\ navigation_enabled' = toggle_mode(navigation_enabled)
        /\ IF navigation_enabled'
           THEN /\ hpc' = "ret"
                /\ hret' = "suppress"
                /\ nav_lock' = "none"
                /\ tickAfterTyping' = FALSE
           ELSE /\ hpc' = "clear_pressed"
                /\ hret' = "pending"
                /\ nav_lock' = "hook"
                /\ tickAfterTyping' = tickAfterTyping
        /\ UNCHANGED <<csVars, cs_lock, now, envVars, fwdDown, hq, hookInj, mpc, mxy,
                       moverInj, leftDown>>

\* a mode switch that leaves the held keys in the tracker
clear_nothing(m) == m

\* HashMap::clear
clear(m) == EmptyMap

\* line 590: cursor_state.lock().unwrap().pressed_keys.clear()
HookClearPressed ==
    /\ hpc = "clear_pressed"
    /\ cs_lock = "none"
    /\ pressed_keys' = clear(pressed_keys)
    /\ hpc' = "clear_speeds"
    /\ UNCHANGED <<x, y, current_speeds, shift_pressed, space_pressed,
                   selection_active, navigation_enabled, cs_lock, nav_lock, now,
                   envVars, fwdDown, down, hev, hnav, hq, hret, hookInj, moverVars,
                   leftDown>>

\* line 591: cursor_state.lock().unwrap().current_speeds.clear(); line 593
HookClearSpeeds ==
    /\ hpc = "clear_speeds"
    /\ cs_lock = "none"
    /\ current_speeds' = clear(current_speeds)
    /\ nav_lock' = "none"
    /\ hpc' = "ret"
    /\ hret' = "suppress"
    /\ UNCHANGED <<x, y, pressed_keys, shift_pressed, space_pressed,
                   selection_active, navigation_enabled, cs_lock, now, envVars, fwdDown,
                   down, hev, hnav, hq, hookInj, moverVars, leftDown>>

\* lines 596-656: a direction key in navigation mode scrolls when shift is
\* held and starts the key's tracking otherwise
HookPressDirection ==
    \E ev \in KeyboardEvents :
        /\ Callback(ev)
        /\ ev.type = "KeyPress"
        /\ navigation_enabled
        /\ ev.key \in DirectionKeys
        /\ cs_lock = "none"
        /\ IF shift_pressed
           THEN /\ hq' = scroll(scroll_dir(ev.key))
                /\ hpc' = "inject"
                /\ hret' = "pending"
                /\ UNCHANGED <<pressed_keys, current_speeds>>
           ELSE /\ pressed_keys' = start_key_press(pressed_keys, ev.key)
                /\ current_speeds' = start_key_speed(current_speeds, ev.key)
                /\ hq' = hq
                /\ hpc' = "ret"
                /\ hret' = "suppress"
        /\ UNCHANGED <<x, y, shift_pressed, space_pressed, selection_active,
                       navigation_enabled, cs_lock, nav_lock, now, envVars, fwdDown,
                       hookInj, moverVars, leftDown>>

\* lines 659-680 and 721-742: click, right click, yank, paste
HookPressOneShot ==
    \E ev \in KeyboardEvents :
        /\ Callback(ev)
        /\ ev.type = "KeyPress"
        /\ navigation_enabled
        /\ ev.key \in OneShotKeys
        /\ hq' = one_shot(ev.key)
        /\ hpc' = "inject"
        /\ hret' = "pending"
        /\ UNCHANGED <<csVars, navigation_enabled, cs_lock, nav_lock, now,
                       envVars, fwdDown, hookInj, moverVars, leftDown>>

\* an action that drops the Result of a failed call and goes on with its
\* next call
HookInject_ignore_error ==
    /\ hpc = "inject"
    /\ hq # <<>>
    /\ \E ok \in BOOLEAN :
          /\ hookInj' = IF ok THEN Append(hookInj, Head(hq).ev) ELSE hookInj
          /\ leftDown' = IF ok THEN LeftAfter(Head(hq).ev, leftDown) ELSE leftDown
          /\ hq' = Tail(hq)
          /\ hpc' = IF ok /\ Head(hq).settle THEN "settle"
                    ELSE IF Tail(hq) = <<>> THEN "ret" ELSE "inject"
          /\ hret' = IF ~(ok /\ Head(hq).settle) /\ Tail(hq) = <<>>
                     THEN "suppress" ELSE hret
    /\ UNCHANGED <<csVars, navigation_enabled, cs_lock, nav_lock, now,
                   envVars, fwdDown, down, hev, hnav, moverVars>>

\* the next call of the running action: simulate succeeds or fails.  After a
\* failure the `?` leaves the action and the callback returns None.
HookInject ==
    /\ hpc = "inject"
    /\ hq # <<>>
    /\ \E ok \in BOOLEAN :
          IF ok
          THEN /\ hookInj' = Append(hookInj, Head(hq).ev)
               /\ leftDown' = LeftAfter(Head(hq).ev, leftDown)
               /\ hq' = Tail(hq)
               /\ hpc' = IF Head(hq).settle THEN "settle"
                         ELSE IF Tail(hq) = <<>> THEN "ret" ELSE "inject"
               /\ hret' = IF ~Head(hq).settle /\ Tail(hq) = <<>>
                          THEN "suppress" ELSE hret
          ELSE /\ hookInj' = hookInj
               /\ leftDown' = leftDown
               /\ hq' = <<>>
               /\ hpc' = "ret"
               /\ hret' = "suppress"
    /\ UNCHANGED <<csVars, navigation_enabled, cs_lock, nav_lock, now,
                   envVars, fwdDown, down, hev, hnav, moverVars>>

\* thread::sleep(delay) of send_event, line 308
HookSettle ==
    /\ hpc = "settle"
    /\ hpc' = IF hq = <<>> THEN "ret" ELSE "inject"
    /\ hret' = IF hq = <<>> THEN "suppress" ELSE hret
    /\ UNCHANGED <<csVars, navigation_enabled, cs_lock, nav_lock, now,
                   envVars, fwdDown, down, hev, hnav, hq, hookInj, moverVars, leftDown>>

\* toggle_selection, lines 396-397: lock, flip selection_active
HookSelectLock ==
    \E ev \in KeyboardEvents :
        /\ Callback(ev)
        /\ ev.type = "KeyPress"
        /\ navigation_enabled
        /\ ev.key = select_toggle_key
        /\ cs_lock = "none"
        /\ cs_lock' = "hook"
        /\ selection_active' = ~selection_active
        /\ hpc' = "sel_inject"
        /\ hret' = "pending"
        /\ UNCHANGED <<x, y, pressed_keys, current_speeds, shift_pressed,
                       space_pressed, navigation_enabled, nav_lock, now,
                       envVars, fwdDown, hq, hookInj, moverVars, leftDown>>

\* toggle_selection, lines 399-409: simulate with the guard still alive; the
\* guard is dropped when the function returns, with Ok or with the error
HookSelectInject ==
    /\ hpc = "sel_inject"
    /\ \E ok \in BOOLEAN :
          IF ok
          THEN /\ hookInj' = Append(hookInj, selection_event(selection_active))
               /\ leftDown' = LeftAfter(selection_event(selection_active),
                                        leftDown)
          ELSE /\ hookInj' = hookInj
               /\ leftDown' = leftDown
    /\ cs_lock' = "none"
    /\ hpc' = "ret"
    /\ hret' = "suppress"
    /\ UNCHANGED <<csVars, navigation_enabled, nav_lock, now, envVars, fwdDown, down,
                   hev, hnav, hq, moverVars>>

\* a goto-top branch that does not look at shift_pressed
goto_is_top_any_shift(key, shift) == key = goto_top_key

\* lines 695-718: which edge a press of the goto key goes to
goto_is_top(key, shift) == key = goto_top_key /\ ~shift

goto_is_bottom(key, shift) == key = goto_bottom_key /\ shift

\* a goto_screen_edge without the drop(state) between its two lock sections
HookGotoSet_no_drop ==
    \E ev \in KeyboardEvents :
        /\ Callback(ev)
        /\ ev.type = "KeyPress"
        /\ navigation_enabled
        /\ cs_lock = "none"
        /\ goto_is_top(ev.key, shift_pressed)
             \/ goto_is_bottom(ev.key, shift_pressed)
        /\ y' = goto_edge_y(goto_is_top(ev.key, shift_pressed))
        /\ cs_lock' = "hook"
        /\ hpc' = "goto_read"
        /\ hret' = "pending"
        /\ UNCHANGED <<x, pressed_keys, current_speeds, shift_pressed,
                       space_pressed, selection_active, navigation_enabled,
                       nav_lock, now, envVars, fwdDown, hq, hookInj,
                       moverVars, leftDown>>

\* goto_screen_edge, lines 412-420: lock, store y, drop
HookGotoSet ==
    \E ev \in KeyboardEvents :
        /\ Callback(ev)
        /\ ev.type = "KeyPress"
        /\ navigation_enabled
        /\ cs_lock = "none"
        /\ goto_is_top(ev.key, shift_pressed)
             \/ goto_is_bottom(ev.key, shift_pressed)
        /\ y' = goto_edge_y(goto_is_top(ev.key, shift_pressed))
        /\ hpc' = "goto_read"
        /\ hret' = "pending"
        /\ UNCHANGED <<x, pressed_keys, current_speeds, shift_pressed,
                       space_pressed, selection_active, navigation_enabled,
                       cs_lock, nav_lock, now, envVars, fwdDown, hq, hookInj,
                       moverVars, leftDown>>

\* goto_screen_edge, lines 423-429: lock again, copy x and y, drop, send
HookGotoRead ==
    /\ hpc = "goto_read"
    /\ cs_lock = "none"
    /\ hq' = <<Sent(MouseMove(x, y))>>
    /\ hpc' = "inject"
    /\ UNCHANGED <<csVars, navigation_enabled, cs_lock, nav_lock, now,
                   envVars, fwdDown, down, hev, hnav, hret, hookInj, moverVars,
                   leftDown>>

\* the keys the navigation-mode press branches of lines 596-742 claim
NavPressKeys ==
    DirectionKeys \cup OneShotKeys
        \cup {select_toggle_key, goto_top_key, goto_bottom_key}

\* line 751: Some(event) for every other press
HookPressForward ==
    \E ev \in KeyboardEvents :
        /\ Callback(ev)
        /\ ev.type = "KeyPress"
        /\ ev.key \notin ShiftKeys \cup {"Space"}
        /\ ~is_toggle_press(ev)
        /\ ~(navigation_enabled /\ ev.key \in NavPressKeys)
        /\ hpc' = "ret"
        /\ hret' = "forward"
        /\ UNCHANGED <<csVars, navigation_enabled, cs_lock, nav_lock, now,
                       envVars, fwdDown, hq, hookInj, moverVars, leftDown>>

\* a release branch that forgets the nav_enabled test of line 762
release_decision_any_mode(key, nav) ==
    IF key \in DirectionKeys THEN "suppress"
    ELSE IF nav /\ key = "Space" THEN "suppress"
    ELSE "forward"

\* the decision of a KeyRelease, lines 762-789
release_decision(key, nav) ==
    IF nav /\ key \in DirectionKeys THEN "suppress"
    ELSE IF nav /\ key = "Space" THEN "suppress"
    ELSE "forward"

\* lines 753-790: the modifier flags, then stop_key_press for a direction key
\* in navigation mode
HookRelease ==
    \E ev \in KeyboardEvents :
        /\ Callback(ev)
        /\ ev.type = "KeyRelease"
        /\ cs_lock = "none"
        /\ shift_pressed' = (IF ev.key \in ShiftKeys THEN FALSE ELSE shift_pressed)
        /\ space_pressed' = (IF ev.key = "Space" THEN FALSE ELSE space_pressed)
        /\ IF navigation_enabled /\ ev.key \in DirectionKeys
           THEN /\ pressed_keys' = stop_key_press(pressed_keys, ev.key)
                /\ current_speeds' = stop_key_press(current_speeds, ev.key)
           ELSE UNCHANGED <<pressed_keys, current_speeds>>
        /\ hpc' = "ret"
        /\ hret' = release_decision(ev.key, navigation_enabled)
        /\ UNCHANGED <<x, y, selection_active, navigation_enabled, cs_lock,
                       nav_lock, now, envVars, fwdDown, hq, hookInj, moverVars,
                       leftDown>>

\* line 791: every event that is no key event passes through
HookOther ==
    \E ev \in KeyboardEvents :
        /\ Callback(ev)
        /\ ev.type = "Other"
        /\ hpc' = "ret"
        /\ hret' = "forward"
        /\ UNCHANGED <<csVars, navigation_enabled, cs_lock, nav_lock, now,
                       envVars, fwdDown, hq, hookInj, moverVars, leftDown>>

\* what the other applications hold down after the decision ret for event
\* ev: a forwarded press reaches them, a release ends the physical press
forwarded_after(fwd, ev, ret) ==
    IF ev.type = "KeyPress" /\ ret = "forward" THEN fwd \cup {ev.key}
    ELSE IF ev.type = "KeyRelease" THEN fwd \ {ev.key}
    ELSE fwd

\* the callback has returned its decision to the OS
HookReturn ==
    /\ hpc = "ret"
    /\ hpc' = "idle"
    /\ hev' = NoEvent
    /\ hnav' = TRUE
    /\ hq' = <<>>
    /\ hret' = "none"
    /\ hookInj' = <<>>
    /\ fwdDown' = IF recording THEN forwarded_after(fwdDown, hev, hret)
                  ELSE fwdDown
    /\ UNCHANGED <<csVars, navigation_enabled, cs_lock, nav_lock, now,
                   envVars, down, moverVars, leftDown>>

\* ------------------------------------------------------------ specification
HookNext ==
    \/ HookPressModifier
    \/ HookToggle
    \/ HookClearPressed
    \/ HookClearSpeeds
    \/ HookPressDirection
    \/ HookPressOneShot
    \/ HookInject
    \/ HookSettle
    \/ HookSelectLock
    \/ HookSelectInject
    \/ HookGotoSet
    \/ HookGotoRead
    \/ HookPressForward
    \/ HookRelease
    \/ HookOther
    \/ HookReturn

MoverNext ==
    \/ MoverLoop
    \/ MoverCheckNav
    \/ MoverLockState
    \/ MoverUpdate
    \/ MoverMoveCursor
    \/ MoverSend
    \/ MoverSettle

Next == HookNext \/ MoverNext

\* the engine with the clock standing still: every hold duration is 0
Spec == Init /\ [][Next]_vars

\* the engine with the clock running, on the keys that move the pointer and
\* set the precision mode: hold durations grow while a key stays down
\* the configurations loaded there: the default, and the default with a
\* max_move_step of 25 pixels or of 1 pixel
TimedConfigs ==
    { default_config,
      [default_config EXCEPT !.max_move_step = 25],
      [default_config EXCEPT !.max_move_step = 1] }

TimedInit == \E c \in TimedConfigs : Start({left_key, down_key, "Space"}, c, FALSE)

TimedNext ==
    \/ Advance
    \/ HookPressModifier
    \/ HookPressDirection
    \/ HookRelease
    \/ HookOther
    \/ HookReturn
    \/ MoverNext

TimedSpec == TimedInit /\ [][TimedNext]_vars

\* the engine of Spec in runs that keep the history of the presses forwarded
\* to the other applications
\* the scheduling the code relies on: a thread that can run does run, and
\* the hook, which needs the CursorState lock again and again free between
\* the mover's ticks (the mover sleeps repeat_delay_ms with no lock held),
\* gets it in the end
HookStep ==
    \/ HookClearPressed
    \/ HookClearSpeeds
    \/ HookInject
    \/ HookSettle
    \/ HookSelectInject
    \/ HookGotoRead
    \/ HookReturn

\* one key for each way the callback takes the locks: tracking, the mode
\* toggle, goto, the selection, a one-shot action, a modifier
FairInit ==
    Start({left_key, toggle_mode_key, goto_top_key, select_toggle_key,
           click_key, "ShiftLeft"}, default_config, FALSE)

FairSpec ==
    FairInit /\ [][Next]_vars /\ SF_vars(HookStep) /\ WF_vars(MoverNext)

PairInit == \E kb \in Keyboards : Start(kb, default_config, TRUE)

PairSpec == PairInit /\ [][Next]_vars

\* -------------------------------------------------------------- properties
\* C1: in every reachable state the pointer is on the screen:
\* 0 <= x <= width-1 and 0 <= y <= height-1, whatever the speeds.
C1_PositionClamp ==
    /\ 0 <= x /\ x <= screen_width - 1 * Scale
    /\ 0 <= y /\ y <= screen_height - 1 * Scale

\* a tick has moved left with the left key tracked and stopped at the edge
C1_Witness ==
    /\ mpc = "move_cursor"
    /\ left_key \in DOMAIN pressed_keys
    /\ x = 0

\* C2: whenever the CursorState lock is free, the press-start map and the
\* speed map hold the same keys.
C2_TrackerConsistent ==
    cs_lock = "none" => DOMAIN pressed_keys = DOMAIN current_speeds

\* C3: once the hook has finished a toggle into typing mode both tracker maps
\* are empty, and a mover tick that starts after that (and before the next
\* toggle back) changes neither x nor y and injects nothing.
C3_NoDriftAfterTyping ==
    /\ [](~navigation_enabled /\ nav_lock = "none"
            => pressed_keys = EmptyMap /\ current_speeds = EmptyMap)
    /\ [][tickAfterTyping => x' = x /\ y' = y /\ moverInj' = moverInj]_vars

\* such a tick runs while the left key, which had driven the pointer to the
\* edge before the toggle, is still physically down
C3_Witness ==
    /\ tickAfterTyping
    /\ mpc = "check_nav"
    /\ left_key \in down
    /\ x = 0

\* C4: neither the hook nor the mover calls simulate or sleeps while it holds
\* the CursorState lock.
C4_LockDiscipline ==
    [][ /\ (HookInject \/ HookSelectInject \/ HookSettle) => cs_lock # "hook"
        /\ (MoverSend \/ MoverSettle) => cs_lock # "mover" ]_vars

\* C5: no step of the mover taken while the mode is typing changes x or y or
\* injects a pointer move.
C5_MoverIdleInTyping ==
    [][ MoverNext /\ ~navigation_enabled
          => x' = x /\ y' = y /\ Len(moverInj') <= Len(moverInj) ]_vars

\* C6: the callback's decision for a press and for a release of the toggle
\* key is suppress.
C6_ToggleSuppressed ==
    hpc = "ret" /\ hev.key = toggle_mode_key => hret = "suppress"

\* C7: between the hook's actions, selection_active is true exactly when a
\* synthetic left-button press has been injected with no later release.
C7_SelectionMatchesButton ==
    hpc = "idle" => (selection_active <=> leftDown)

\* C8: the mode changes only in the handling of a press edge of the toggle
\* key, never in the handling of its auto-repeat.
C8_ToggleOnEdgeOnly ==
    [][navigation_enabled' # navigation_enabled => ~hev'.repeat]_vars

\* the steps of the toggle branch, lines 583-593
ToggleStep == HookToggle \/ HookClearPressed \/ HookClearSpeeds

\* the toggle branch has just returned with the mode now typing
EnteredTyping == hpc = "ret" /\ is_toggle_press(hev) /\ ~navigation_enabled

\* C9 as claimed: the toggle into typing mode leaves shift_held alone and
\* ends with precision_held false.
C9_PrecisionReset ==
    [][ ToggleStep => /\ shift_pressed' = shift_pressed
                      /\ (EnteredTyping' => ~space_pressed') ]_vars

\* C9 as the code has it: the toggle into typing mode clears both tracker
\* maps and leaves both shift_held and precision_held as they were.
C9_ModifiersKept ==
    [][ ToggleStep => /\ shift_pressed' = shift_pressed
                      /\ space_pressed' = space_pressed
                      /\ (EnteredTyping' => /\ pressed_keys' = EmptyMap
                                            /\ current_speeds' = EmptyMap) ]_vars

\* typing mode has been entered with the precision key held
C9_Witness == EnteredTyping /\ space_pressed /\ "Space" \in down

\* C10: in typing mode the callback forwards every press and release of a
\* key other than the toggle key, and its handling changes neither x, y, the
\* tracker maps nor selection_active and injects nothing.
C10_TypingPassThrough ==
    [][ /\ hpc = "idle" /\ hpc' # "idle"
        /\ ~navigation_enabled
        /\ hev'.type \in {"KeyPress", "KeyRelease"}
        /\ hev'.key # toggle_mode_key
        => /\ hpc' = "ret" /\ hret' = "forward"
           /\ UNCHANGED <<x, y, pressed_keys, current_speeds, selection_active,
                          hookInj, leftDown>> ]_vars

\* a direction key released in typing mode has been forwarded
C10_Witness ==
    /\ hpc = "ret" /\ ~hnav
    /\ hev.type = "KeyRelease" /\ hev.key \in DirectionKeys
    /\ hret = "forward"

\* C11: a mover tick injects at most one pointer move, however many direction
\* keys are held, and injects nothing before the axis updates of the tick
\* have been applied.
C11_OneMovePerTick ==
    /\ Len(moverInj) <= 1
    /\ mpc \in {"check_nav", "lock_state", "update", "move_cursor", "send"}
         => moverInj = <<>>

\* a tick with the left and the down key held has moved both axes to the
\* screen edge and has sent the one pointer move that carries both
C11_Witness ==
    /\ mpc = "settle"
    /\ {left_key, down_key} \subseteq DOMAIN pressed_keys
    /\ moverInj = <<MouseMove(0, screen_height - 1 * Scale)>>

\* the events of a sequence of calls
Events(calls) == [i \in 1..Len(calls) |-> calls[i].ev]

\* C12: a call of simulate that fails is not repeated and ends its action:
\* the hook injects nothing more, drops its locks and returns the suppress
\* decision, so what a one-shot action has injected is a prefix of its
\* events; a failed pointer move of the mover ends the tick, with the lock
\* free, and the loop goes on.
C12_FailureRecovered ==
    /\ [](hpc = "ret" /\ hev.type = "KeyPress" /\ hnav /\ hev.key \in OneShotKeys
            => /\ hret = "suppress"
               /\ Len(hookInj) <= Len(one_shot(hev.key))
               /\ hookInj = SubSeq(Events(one_shot(hev.key)), 1, Len(hookInj)))
    /\ [][ /\ HookInject /\ hookInj' = hookInj
               => hq' = <<>> /\ hpc' = "ret" /\ hret' = "suppress"
           /\ HookSelectInject /\ hookInj' = hookInj
               => hpc' = "ret" /\ hret' = "suppress" /\ cs_lock' = "none"
           /\ MoverSend /\ moverInj' = moverInj
               => mpc' = "loop" /\ cs_lock' = cs_lock /\ cs_lock # "mover" ]_vars

\* the release of a click could not be injected: the click has ended after
\* its press and the key is suppressed
C12_Witness ==
    /\ hpc = "ret"
    /\ hev.key = click_key
    /\ hookInj = <<ButtonPress("Left")>>
    /\ hret = "suppress"

\* C13: every successful injection, by the hook or by the mover, is followed
\* by the settle sleep of the injecting thread before that thread does
\* anything else: no two injections are back to back.
C13_SettleAfterInject ==
    [][ /\ (HookInject \/ HookSelectInject) /\ hookInj' # hookInj
            => hpc' = "settle"
        /\ MoverSend /\ moverInj' # moverInj => mpc' = "settle" ]_vars

\* C14: with precision off and no cap, the speed a tick computes for a key
\* held for h seconds is initial_move_step + acceleration_multiplier *
\* acceleration_base^h: with the default 1, 50 and 2 it is 51 pixels at h = 0
\* and 101 pixels at h = 1.
C14_SpeedFormula ==
    [][ MoverUpdate /\ ~space_pressed /\ config.max_move_step < 0
        => \A k \in DirectionKeys \cap DOMAIN pressed_keys :
              LET h == now - pressed_keys[k]
              IN  /\ current_speeds'[k] =
                        config.initial_move_step
                        + config.acceleration_multiplier
                            * powf(config.acceleration_base, h) * Scale
                  /\ config = default_config /\ h = 0
                        => current_speeds'[k] = 51 * Scale
                  /\ config = default_config /\ h = 1
                        => current_speeds'[k] = 101 * Scale ]_vars

\* a tick has computed the speed of the left key one second after its press
C14_Witness ==
    /\ ~space_pressed
    /\ config = default_config
    /\ left_key \in DOMAIN pressed_keys
    /\ now - pressed_keys[left_key] = 1
    /\ current_speeds[left_key] = 101 * Scale

\* C15: with max_move_step = Some(M), the speed a tick computes for a held
\* key is at most M whatever the hold duration, so the tick changes x and y
\* by at most M; with M = 25 and precision off the speed is 25 at h = 0 and
\* at h = 1.
C15_CapEnforced ==
    [][ MoverUpdate /\ config.max_move_step >= 0
        => LET M == config.max_move_step * Scale
           IN  /\ \A k \in DirectionKeys \cap DOMAIN pressed_keys :
                      /\ current_speeds'[k] <= M
                      /\ config.max_move_step = 25 /\ ~space_pressed
                            => current_speeds'[k] = 25 * Scale
               /\ x - x' <= M /\ x' - x <= M
               /\ y - y' <= M /\ y' - y <= M ]_vars

\* with the cap of 25 a tick has computed the speed of the left key one
\* second after its press
C15_Witness ==
    /\ config.max_move_step = 25
    /\ ~space_pressed
    /\ left_key \in DOMAIN pressed_keys
    /\ now - pressed_keys[left_key] = 1
    /\ current_speeds[left_key] = 25 * Scale

\* C16: with precision on (and no cap, so that the speed stored is the
\* pre-cap speed) the speed a tick computes for a held key is the speed with
\* precision off divided by the configured precision_divisor.
C16_PrecisionDivisor ==
    [][ MoverUpdate /\ space_pressed /\ config.max_move_step < 0
        => \A k \in DirectionKeys \cap DOMAIN pressed_keys :
              LET h == now - pressed_keys[k]
              IN  current_speeds'[k] * config.precision_divisor =
                      config.initial_move_step
                      + config.acceleration_multiplier
                          * powf(config.acceleration_base, h) * Scale ]_vars

\* the hook takes up a press of a direction key in navigation mode
DirectionPressTaken ==
    /\ hpc = "idle" /\ hpc' # "idle"
    /\ navigation_enabled
    /\ hev'.type = "KeyPress" /\ hev'.key \in DirectionKeys

\* C17: in navigation mode a press of a direction key is suppressed; with
\* shift_held false it puts the key into both tracker maps and injects
\* nothing, with shift_held true it leaves both maps as they are and scrolls
\* in the key's direction.
C17_DirectionPress ==
    /\ [][ DirectionPressTaken
             => IF shift_pressed
                THEN /\ UNCHANGED <<pressed_keys, current_speeds>>
                     /\ hq' # <<>>
                     /\ \A i \in 1..Len(hq') :
                           hq'[i].ev = scroll_event(scroll_dir(hev'.key))
                ELSE /\ hev'.key \in DOMAIN pressed_keys'
                     /\ hev'.key \in DOMAIN current_speeds'
                     /\ hq' = <<>> /\ hpc' = "ret" ]_vars
    /\ [](hpc = "ret" /\ hnav /\ hev.type = "KeyPress"
             /\ hev.key \in DirectionKeys
            => /\ hret = "suppress"
               /\ \A i \in 1..Len(hookInj) : hookInj[i].kind = "Wheel"
               /\ ~shift_pressed => hookInj = <<>>)

\* shift+H has scrolled left three times and has tracked nothing
C17_Witness ==
    /\ hpc = "ret"
    /\ hev.type = "KeyPress" /\ hev.key = left_key
    /\ shift_pressed
    /\ hookInj = <<Wheel(-120, 0), Wheel(-120, 0), Wheel(-120, 0)>>
    /\ pressed_keys = EmptyMap /\ current_speeds = EmptyMap
    /\ hret = "suppress"

\* the hook takes up a key release
ReleaseTaken ==
    /\ hpc = "idle" /\ hpc' # "idle"
    /\ hev'.type = "KeyRelease"

\* map m without key k, every other entry as it was
Without(m, k, after) ==
    /\ DOMAIN after = DOMAIN m \ {k}
    /\ \A j \in DOMAIN after : after[j] = m[j]

\* C18: a release of a direction key in navigation mode takes the key out of
\* both tracker maps (nothing changes if it is not there) and is suppressed;
\* a release of the precision key in navigation mode is suppressed; every
\* other release, and every release in typing mode, is forwarded and leaves
\* the maps alone; in both modes the release of a shift key clears
\* shift_held and the release of the precision key clears precision_held.
C18_Release ==
    [][ ReleaseTaken
        => LET k == hev'.key
           IN  /\ hpc' = "ret"
               /\ IF navigation_enabled /\ k \in DirectionKeys
                  THEN /\ Without(pressed_keys, k, pressed_keys')
                       /\ Without(current_speeds, k, current_speeds')
                       /\ hret' = "suppress"
                  ELSE /\ UNCHANGED <<pressed_keys, current_speeds>>
                       /\ hret' = IF navigation_enabled /\ k = "Space"
                                  THEN "suppress" ELSE "forward"
               /\ shift_pressed' = (shift_pressed /\ k \notin ShiftKeys)
               /\ space_pressed' = (space_pressed /\ k # "Space")
               /\ UNCHANGED <<x, y, selection_active, navigation_enabled,
                              hookInj>> ]_vars

\* the left key has been released in navigation mode while the down key
\* stays tracked
C18_Witness ==
    /\ hpc = "ret" /\ hnav
    /\ hev.type = "KeyRelease" /\ hev.key = left_key
    /\ hret = "suppress"
    /\ DOMAIN pressed_keys = {down_key}
    /\ DOMAIN current_speeds = {down_key}

\* the hook takes up a press, in navigation mode, of the key that both
\* goto-top and goto-bottom are bound to
GotoPressTaken ==
    /\ hpc = "idle" /\ hpc' # "idle"
    /\ navigation_enabled
    /\ hev'.type = "KeyPress"
    /\ hev'.key = goto_top_key /\ hev'.key = goto_bottom_key

\* C19: with goto-top and goto-bottom on one key, a press of it in navigation
\* mode runs goto-top when shift_held is false and goto-bottom when it is
\* true, one of the two and only one (one state update, at most one pointer
\* move), and the press is suppressed.
C19_GotoExclusive ==
    /\ [][ GotoPressTaken
             => /\ hpc' = "goto_read"
                /\ y' = IF shift_pressed THEN screen_height - 1 * Scale ELSE 0
             ]_vars
    /\ [][ hpc = "goto_read" => y' = y \/ MoverUpdate ]_vars
    /\ [](hpc = "ret" /\ hnav /\ hev.type = "KeyPress"
             /\ hev.key = goto_top_key /\ hev.key = goto_bottom_key
            => /\ hret = "suppress"
               /\ Len(hookInj) <= 1
               /\ \A i \in 1..Len(hookInj) : hookInj[i].kind = "MouseMove")

\* shift+G has gone to the bottom edge and has sent its pointer move
C19_Witness ==
    /\ hpc = "ret"
    /\ hev.type = "KeyPress" /\ hev.key = goto_bottom_key
    /\ shift_pressed
    /\ hookInj = <<MouseMove(screen_width \div 2, screen_height - 1 * Scale)>>
    /\ hret = "suppress"

\* C20: the state update of goto-top stores y = 0 and that of goto-bottom
\* stores y = height - 1; neither changes x, the tracker maps, the modifier
\* flags, selection_active or the mode.
C20_GotoFrame ==
    [][ HookGotoSet
        => /\ goto_is_top(hev'.key, shift_pressed) => y' = 0
           /\ goto_is_bottom(hev'.key, shift_pressed)
                 => y' = screen_height - 1 * Scale
           /\ UNCHANGED <<x, pressed_keys, current_speeds, shift_pressed,
                          space_pressed, selection_active,
                          navigation_enabled>> ]_vars

\* goto-top has stored y = 0 while the left key is held and keeps its press
\* instant and its speed
C20_Witness ==
    /\ hpc = "goto_read"
    /\ hev.key = goto_top_key /\ ~shift_pressed
    /\ y = 0
    /\ left_key \in DOMAIN pressed_keys
    /\ left_key \in DOMAIN current_speeds
    /\ current_speeds[left_key] = 51 * Scale

\* the hook is running the scroll of a shift + direction-key press
Scrolling ==
    /\ hnav /\ shift_pressed
    /\ hev.type = "KeyPress" /\ hev.key \in DirectionKeys

\* the wheel event the claim gives each direction key
ClaimedWheel(key) ==
    CASE key = up_key    -> [kind |-> "Wheel", delta_x |-> 0, delta_y |-> 120]
      [] key = down_key  -> [kind |-> "Wheel", delta_x |-> 0, delta_y |-> -120]
      [] key = left_key  -> [kind |-> "Wheel", delta_x |-> -120, delta_y |-> 0]
      [] key = right_key -> [kind |-> "Wheel", delta_x |-> 120, delta_y |-> 0]

\* C21: a scroll that ends with no failed injection has injected exactly
\* three wheel events and nothing else, each of 120 on the axis of its
\* direction with the claimed sign and 0 on the other; no step of a scroll
\* changes a field of CursorState.
C21_ScrollBurst ==
    /\ [][ Scrolling /\ HookSettle /\ hpc' = "ret"
             => /\ Len(hookInj) = 3
                /\ \A i \in 1..3 : hookInj[i] = ClaimedWheel(hev.key) ]_vars
    /\ [][ Scrolling /\ (HookInject \/ HookSettle) => UNCHANGED csVars ]_vars
    /\ [][ DirectionPressTaken /\ shift_pressed => UNCHANGED csVars ]_vars

\* shift+J has scrolled down three times
C21_Witness ==
    /\ hpc = "ret" /\ Scrolling
    /\ hev.key = down_key
    /\ hookInj = <<Wheel(0, -120), Wheel(0, -120), Wheel(0, -120)>>

\* C22: the press-start instant of a tracked key is the instant of its press
\* edge: an auto-repeat press, delivered while the key stays down, leaves it
\* as it is, so the hold duration keeps growing while the key is held.
C22_HoldSincePressEdge ==
    [][ /\ hpc = "idle" /\ hpc' # "idle"
        /\ hev'.type = "KeyPress" /\ hev'.repeat
        /\ hev'.key \in DOMAIN pressed_keys
        => /\ hev'.key \in DOMAIN pressed_keys'
           /\ pressed_keys'[hev'.key] = pressed_keys[hev'.key] ]_vars

\* C25: once the hook has handled the events delivered so far, shift_held is
\* true exactly when ShiftLeft or ShiftRight is physically down.
C25_ShiftMatchesKeys ==
    hpc = "idle" => (shift_pressed <=> down \cap ShiftKeys # {})

\* C26: the pointer move of a goto carries the y the goto stored, 0 or
\* height - 1, and the x of the moment of that store, whatever the mover does
\* between the store and the injection.
C26_GotoMoveEvent ==
    /\ [][ HookGotoRead
             => hq'[1].ev.y = IF shift_pressed THEN screen_height - 1 * Scale
                              ELSE 0 ]_vars
    /\ [][ hpc = "goto_read" => x' = x ]_vars

\* C24: the release of a key is forwarded exactly when a press of that same
\* physical press was forwarded, whatever happened between the two.
C24_PressReleasePaired ==
    hpc = "ret" /\ hev.type = "KeyRelease"
        => (hret = "forward" <=> hev.key \in fwdDown)

\* the hook is inside the callback at a lock().unwrap() of CursorState that
\* does not return
HookWaits ==
    /\ hpc \in {"clear_pressed", "clear_speeds", "goto_read"}
    /\ cs_lock # "none"

\* the mover is at a lock().unwrap() that does not return
MoverWaits ==
    \/ mpc = "check_nav" /\ nav_lock # "none"
    \/ mpc \in {"lock_state", "move_cursor"} /\ cs_lock # "none"

\* C23: the hook and the mover never both wait for a lock, neither waits for
\* a lock it holds itself, and with fair scheduling every invocation of the
\* callback reaches its return with a decision.
C23_NoDeadlock ==
    /\ [](~(HookWaits /\ MoverWaits))
    /\ [](HookWaits => cs_lock # "hook")
    /\ [](MoverWaits => cs_lock # "mover" /\ nav_lock # "mover")
    /\ (hpc # "idle" ~> hpc = "ret" /\ hret \in {"forward", "suppress"})

\* the hook, holding the Mode lock in its toggle into typing mode, waits for
\* the CursorState lock that the mover holds in a tick
C23_Witness ==
    /\ hpc = "clear_pressed" /\ nav_lock = "hook"
    /\ mpc = "update" /\ cs_lock = "mover"

====
